---- MODULE Spec2Model ----
(***************************************************************************)
(* The Dali Dream Garden placement engine (object-manage/object-manager.js *)
(* as shipped in src/object-manage/osc-sender.js, lines 81-931) with the   *)
(* catalog of object-manage/object-location-data.js and the OSC sender.    *)
(*                                                                         *)
(* Object ids are the strings the handlers pass on ("1".."30", or an id    *)
(* the catalog does not know).  A location id such as "RM2" is the pair    *)
(* <<"RM", 2>> of its alphabetic prefix and its number, so that the regex  *)
(* of getLocationTypeFromId can be computed.  Date.now() readings are not  *)
(* modelled: objectTimestamps is the set of its keys.                      *)
(***************************************************************************)
EXTENDS Integers, Sequences, FiniteSets, TLC

VARIABLES
    objects,           \* GardenData.objects
    locations,         \* GardenData.locations
    addingOrder,       \* GardenData.addingOrder
    objectTimestamps,  \* keys of GardenData.objectTimestamps
    stateVersion,      \* GardenData.stateVersion
    inactivityTimer,   \* TRUE while a setTimeout of resetInactivityTimer is pending
    timerSetAt,        \* stateVersion at the latest setTimeout of resetInactivityTimer
    pendingTimeouts,   \* the setTimeout calls neither fired nor cleared
    oscPortFails,      \* TRUE when oscPort.send throws
    inProgress,        \* the callbacks that have started and not returned
    relayConnected,    \* relaySocket && relaySocket.connected
    relaySent,         \* what the last relay handler emitted to the relay
    lastObjectId,      \* the object id of the last add command of the relay
    lastSessionId,     \* the session id of the last add command of the relay
    result,            \* what the last handler returned
    oscSent            \* the emitter calls the last handler made, in order

vars == <<objects, locations, addingOrder, objectTimestamps, stateVersion,
          inactivityTimer, timerSetAt, pendingTimeouts, oscPortFails,
          inProgress, relayConnected, relaySent, lastObjectId,
          lastSessionId, result, oscSent>>

\* The relay's side of the state.
relayVars == <<relayConnected, relaySent, lastObjectId, lastSessionId>>

---------------------------------------------------------------------------
(* Bounds of the model *)

\* Handlers run only while stateVersion stays within MaxVersion.
MaxVersion == 2

\* Math.random() is drawn from {0/RandLevels, ..., (RandLevels-1)/RandLevels}.
RandLevels == 2

---------------------------------------------------------------------------
(* The catalog: object-location-data.js *)

LocRange(prefix, n) == [i \in 1..n |-> <<prefix, i>>]

LocationData ==
    ("M"  :> LocRange("M", 6)) @@
    ("B"  :> LocRange("B", 10)) @@
    ("RM" :> LocRange("RM", 2)) @@
    ("RC" :> LocRange("RC", 2)) @@
    ("H1" :> << <<"H", 1>> >>) @@
    ("H2" :> << <<"H", 2>> >>)

M_RM   == <<"M", "RM">>
M_RC   == <<"M", "RC">>
M_B_RM == <<"M", "B", "RM">>
M_B    == <<"M", "B">>
B_only == <<"B">>

ObjectLocationData ==
    ("1"  :> [location |-> M_RM])   @@ ("2"  :> [location |-> M_RC])   @@
    ("3"  :> [location |-> M_B_RM]) @@ ("4"  :> [location |-> M_B_RM]) @@
    ("5"  :> [location |-> M_B_RM]) @@ ("6"  :> [location |-> B_only]) @@
    ("7"  :> [location |-> M_B])    @@ ("8"  :> [location |-> M_RC])   @@
    ("9"  :> [location |-> M_RM])   @@ ("10" :> [location |-> B_only]) @@
    ("11" :> [location |-> M_RM])   @@ ("12" :> [location |-> M_RM])   @@
    ("13" :> [location |-> M_B_RM]) @@ ("14" :> [location |-> M_RC])   @@
    ("15" :> [location |-> M_RM])   @@ ("16" :> [location |-> M_RM])   @@
    ("17" :> [location |-> B_only]) @@ ("18" :> [location |-> M_RM])   @@
    ("19" :> [location |-> M_B])    @@ ("20" :> [location |-> M_RC])   @@
    ("21" :> [location |-> <<"H1", "H2">>]) @@
    ("22" :> [location |-> M_RM])   @@ ("23" :> [location |-> M_B])    @@
    ("24" :> [location |-> B_only]) @@ ("25" :> [location |-> M_B])    @@
    ("26" :> [location |-> M_RC])   @@ ("27" :> [location |-> M_B])    @@
    ("28" :> [location |-> M_B])    @@ ("29" :> [location |-> M_B])    @@
    ("30" :> [location |-> M_B])

PrioritizedPositionMap ==
    ("3" :> "M")  @@ ("4" :> "M")  @@ ("5" :> "M")  @@ ("7" :> "M")  @@
    ("11" :> "M") @@ ("12" :> "M") @@ ("13" :> "M") @@ ("15" :> "M") @@
    ("18" :> "M") @@ ("19" :> "B") @@ ("23" :> "M") @@ ("26" :> "M") @@
    ("28" :> "M")

\* "max 22 objects": the literal 22 of the capacity checks.
MAX_CAPACITY == 22

---------------------------------------------------------------------------
(* JavaScript array helpers *)

\* Array.prototype.indexOf, 1-based; 0 stands for -1.
IndexOf(seq, x) ==
    IF \E i \in 1..Len(seq) : seq[i] = x
    THEN CHOOSE i \in 1..Len(seq) : seq[i] = x /\ \A j \in 1..(i - 1) : seq[j] # x
    ELSE 0

Includes(seq, x) == \E i \in 1..Len(seq) : seq[i] = x

\* Fault variant of Splice: a splice that removes nothing.
SpliceKeepsAll(seq, i) == seq

\* seq.splice(i, 1)
Splice(seq, i) == [j \in 1..(Len(seq) - 1) |-> IF j < i THEN seq[j] ELSE seq[j + 1]]

\* Fault variant of SpliceValue: the first element is removed whatever x is.
SpliceValueShifts(seq, x) == IF IndexOf(seq, x) = 0 THEN seq ELSE Tail(seq)

\* seq.splice(indexOf(x), 1) guarded by "if (index !== -1)"
SpliceValue(seq, x) == IF IndexOf(seq, x) = 0 THEN seq ELSE Splice(seq, IndexOf(seq, x))

Range(seq) == {seq[i] : i \in 1..Len(seq)}

\* Math.random() values, as fractions <<numerator, denominator>> in [0, 1).
RandomValues == {<<k, RandLevels>> : k \in 0..(RandLevels - 1)}

\* seq[Math.floor(Math.random() * seq.length)]
PickRandom(seq, r) == seq[((r[1] * Len(seq)) \div r[2]) + 1]

---------------------------------------------------------------------------
(* osc-sender.js *)

getLocationTypeFromId(locationId) == locationId[1]

\* Fault variant of OscEvent: the type reported is the first type the object
\* permits, not the type of the location.
OscEventObjectType(objectId, locationId, isAdd) ==
    [objectId |-> objectId, locationId |-> locationId,
     locationType |-> IF objectId \in DOMAIN ObjectLocationData
                      THEN ObjectLocationData[objectId].location[1]
                      ELSE getLocationTypeFromId(locationId),
     isAdd |-> isAdd]

OscEvent(objectId, locationId, isAdd) ==
    [objectId |-> objectId, locationId |-> locationId,
     locationType |-> getLocationTypeFromId(locationId), isAdd |-> isAdd]

\* One call of sendObjectEvent: a message to /garden/object.
sendObjectEvent(event) == [address |-> "/garden/object", events |-> <<event>>]

\* One call of sendObjectArrayEvent: a message to /garden/objects, or nothing
\* sent for an empty array.
sendObjectArrayEvent(objectsArray) ==
    IF Len(objectsArray) = 0
    THEN <<>>
    ELSE << [address |-> "/garden/objects", events |-> objectsArray] >>

---------------------------------------------------------------------------
(* object-manager.js: the placement engine *)

\* "let removedObject = null"
NoObject == [id |-> "", location |-> <<"", 0>>, reason |-> "none"]

Removed(id, location, reason) == [id |-> id, location |-> location, reason |-> reason]

\* The garden fields of a work record or of the state.
Garden(objs, locs, order, stamps) ==
    [objects |-> objs, locations |-> locs, addingOrder |-> order,
     objectTimestamps |-> stamps]

\* A handler's working copy: the garden, the removedObject variable of
\* addObject, the removedObjects list of addObjectsBatch and the events
\* decided so far.
Work(g) ==
    [objects |-> g.objects, locations |-> g.locations,
     addingOrder |-> g.addingOrder, objectTimestamps |-> g.objectTimestamps,
     removedObject |-> NoObject, removedObjects |-> <<>>, events |-> <<>>]

\* LocationData[t] for each t of types in order, concatenated, skipping the
\* type `except` and the types LocationData does not have.
RECURSIVE ConcatLocations(_, _)
ConcatLocations(types, except) ==
    IF types = <<>> THEN <<>>
    ELSE LET t == Head(types)
             here == IF t # except /\ t \in DOMAIN LocationData
                     THEN LocationData[t] ELSE <<>>
         IN  here \o ConcatLocations(Tail(types), except)

\* Fault variant of getPrioritizedLocations: the candidate lists are built from
\* every location type instead of the object's validLocationTypes.
getPrioritizedLocationsAnyType(objectId, validLocationTypes) ==
    [prioritized |-> <<>>,
     fallback |-> ConcatLocations(<<"M", "B", "RM", "RC", "H1", "H2">>, "")]

getPrioritizedLocations(objectId, validLocationTypes) ==
    IF objectId \in DOMAIN PrioritizedPositionMap
    THEN LET prioritizedType == PrioritizedPositionMap[objectId]
         IN  [prioritized |-> IF prioritizedType \in DOMAIN LocationData
                              THEN LocationData[prioritizedType] ELSE <<>>,
              fallback |-> ConcatLocations(validLocationTypes, prioritizedType)]
    ELSE [prioritized |-> <<>>,
          fallback |-> ConcatLocations(validLocationTypes, "")]

\* Fault variant of EvictAt: the evicted id keeps its timestamp.
EvictAtKeepsTimestamp(w, index) ==
    LET id == w.objects[index]
    IN  [w EXCEPT !.objects = Splice(w.objects, index),
                  !.locations = Splice(w.locations, index),
                  !.addingOrder = SpliceValue(w.addingOrder, id)]

\* The eviction every removal path performs at objects[index]: both arrays
\* spliced at index, the id spliced out of addingOrder, its timestamp deleted.
EvictAt(w, index) ==
    LET id == w.objects[index]
    IN  [w EXCEPT !.objects = Splice(w.objects, index),
                  !.locations = Splice(w.locations, index),
                  !.addingOrder = SpliceValue(w.addingOrder, id),
                  !.objectTimestamps = w.objectTimestamps \ {id}]

\* Fault variant of DuplicateStep: no existence check.
DuplicateStepSkipped(w, objId) == w

\* Fault variant of DuplicateStep: the old placement is removed without a
\* removal event.
DuplicateStepSilent(w, objId) ==
    LET existingIndex == IndexOf(w.objects, objId)
        old == Removed(objId, w.locations[existingIndex], "duplicate")
    IN  IF existingIndex = 0 THEN w
        ELSE [EvictAt(w, existingIndex) EXCEPT
                !.removedObject = old,
                !.removedObjects = Append(w.removedObjects, old)]

\* "Check for existence and remove if duplicate"
DuplicateStep(w, objId) ==
    LET existingIndex == IndexOf(w.objects, objId)
        old == Removed(objId, w.locations[existingIndex], "duplicate")
    IN  IF existingIndex = 0 THEN w
        ELSE [EvictAt(w, existingIndex) EXCEPT
                !.removedObject = old,
                !.removedObjects = Append(w.removedObjects, old),
                !.events = Append(w.events, OscEvent(objId, old.location, FALSE))]

\* Fault variant of ForcedLocation: the target is drawn from all possible
\* locations, ignoring the prioritized ones.
ForcedLocationUnprioritized(w, prioritizedLocations, allPossibleLocations, r) ==
    PickRandom(allPossibleLocations, r)

\* The location forced displacement targets.
ForcedLocation(w, prioritizedLocations, allPossibleLocations, r) ==
    LET occupiedPrioritizedLocations ==
            SelectSeq(prioritizedLocations, LAMBDA l : Includes(w.locations, l))
    IN  IF Len(occupiedPrioritizedLocations) > 0
        THEN PickRandom(occupiedPrioritizedLocations, r)
        ELSE PickRandom(allPossibleLocations, r)

\* Fault variant of ForcedStep: the occupant of the forced location stays.
ForcedStepKeepsOccupant(w, forcedLocation) == w

\* Fault variant of ForcedStep: the occupant is displaced without a removal
\* event.
ForcedStepSilent(w, forcedLocation) ==
    LET occupiedIndex == IndexOf(w.locations, forcedLocation)
        displaced == Removed(w.objects[occupiedIndex], forcedLocation,
                             "forced_displacement")
    IN  IF occupiedIndex = 0 THEN w
        ELSE [EvictAt(w, occupiedIndex) EXCEPT
                !.removedObject =
                    IF w.removedObject = NoObject \/ w.removedObject.id # displaced.id
                    THEN displaced ELSE w.removedObject,
                !.removedObjects = Append(w.removedObjects, displaced)]

\* Fault variant of ForcedStep: the displaced occupant is not stored in
\* removedObject.
ForcedStepUnreported(w, forcedLocation) ==
    LET occupiedIndex == IndexOf(w.locations, forcedLocation)
        displaced == Removed(w.objects[occupiedIndex], forcedLocation,
                             "forced_displacement")
    IN  IF occupiedIndex = 0 THEN w
        ELSE [EvictAt(w, occupiedIndex) EXCEPT
                !.events = Append(w.events,
                                  OscEvent(displaced.id, forcedLocation, FALSE))]

\* "Find what object is currently at this location" and displace it.  In
\* addObject (single) removedObject is overwritten unless it names the
\* displaced id; addObjectsBatch pushes onto removedObjects.
ForcedStep(w, forcedLocation) ==
    LET occupiedIndex == IndexOf(w.locations, forcedLocation)
        displaced == Removed(w.objects[occupiedIndex], forcedLocation,
                             "forced_displacement")
    IN  IF occupiedIndex = 0 THEN w
        ELSE [EvictAt(w, occupiedIndex) EXCEPT
                !.removedObject =
                    IF w.removedObject = NoObject \/ w.removedObject.id # displaced.id
                    THEN displaced ELSE w.removedObject,
                !.removedObjects = Append(w.removedObjects, displaced),
                !.events = Append(w.events,
                                  OscEvent(displaced.id, forcedLocation, FALSE))]

\* The capacity check: addObject tests "length >= 22 && !removedObject",
\* addObjectsBatch tests "length >= 22".
AtCapacity(w, single) ==
    /\ Len(w.objects) >= MAX_CAPACITY
    /\ single => w.removedObject = NoObject

CapacityStep(w, single) ==
    LET oldestIndex == IF Len(w.addingOrder) = 0 THEN 0
                       ELSE IndexOf(w.objects, w.addingOrder[1])
        oldest == Removed(w.objects[oldestIndex], w.locations[oldestIndex], "oldest")
    IN  IF ~AtCapacity(w, single) \/ oldestIndex = 0 THEN w
        ELSE [w EXCEPT
                !.objects = Splice(w.objects, oldestIndex),
                !.locations = Splice(w.locations, oldestIndex),
                !.addingOrder = Tail(w.addingOrder),
                !.objectTimestamps = w.objectTimestamps \ {oldest.id},
                !.removedObject = oldest,
                !.removedObjects = Append(w.removedObjects, oldest),
                !.events = Append(w.events, OscEvent(oldest.id, oldest.location, FALSE))]

\* Fault variant of SelectLocation: the draw ignores the prioritized locations.
SelectLocationUnprioritized(availablePrioritizedLocations, availableLocations, r) ==
    PickRandom(availableLocations, r)

\* "Select location with priority: prefer prioritized locations if available"
SelectLocation(availablePrioritizedLocations, availableLocations, r) ==
    IF Len(availablePrioritizedLocations) > 0
    THEN PickRandom(availablePrioritizedLocations, r)
    ELSE PickRandom(availableLocations, r)

\* Fault variant of PlaceStep: the addition is announced ahead of the
\* removals decided before it.
PlaceStepAnnouncedFirst(w, objId, selectedLocation) ==
    [w EXCEPT !.objects = Append(w.objects, objId),
              !.locations = Append(w.locations, selectedLocation),
              !.addingOrder = Append(w.addingOrder, objId),
              !.objectTimestamps = w.objectTimestamps \cup {objId},
              !.events = <<OscEvent(objId, selectedLocation, TRUE)>> \o w.events]

\* Fault variant of PlaceStep: addingOrder takes the new id at its head.
PlaceStepNewestFirst(w, objId, selectedLocation) ==
    [w EXCEPT !.objects = Append(w.objects, objId),
              !.locations = Append(w.locations, selectedLocation),
              !.addingOrder = <<objId>> \o w.addingOrder,
              !.objectTimestamps = w.objectTimestamps \cup {objId},
              !.events = Append(w.events, OscEvent(objId, selectedLocation, TRUE))]

\* "Add object and location to garden state"
PlaceStep(w, objId, selectedLocation) ==
    [w EXCEPT !.objects = Append(w.objects, objId),
              !.locations = Append(w.locations, selectedLocation),
              !.addingOrder = Append(w.addingOrder, objId),
              !.objectTimestamps = w.objectTimestamps \cup {objId},
              !.events = Append(w.events, OscEvent(objId, selectedLocation, TRUE))]

\* Fault variant of PlaceObject: the free locations are those that were free
\* before the duplicate was removed.
PlaceObjectStaleLocations(w, objId, r1, r2, single) ==
    LET validLocationTypes == ObjectLocationData[objId].location
        w1 == DuplicateStep(w, objId)
        lists == getPrioritizedLocations(objId, validLocationTypes)
        free(l) == ~Includes(w.locations, l)
        availablePrioritizedLocations == SelectSeq(lists.prioritized, free)
        availableFallbackLocations == SelectSeq(lists.fallback, free)
        available == availablePrioritizedLocations \o availableFallbackLocations
        allPossibleLocations == lists.prioritized \o lists.fallback
        forcedLocation == ForcedLocation(w1, lists.prioritized, allPossibleLocations, r1)
        w2 == IF Len(available) = 0 THEN ForcedStep(w1, forcedLocation) ELSE w1
        availableLocations == IF Len(available) = 0 THEN <<forcedLocation>> ELSE available
        w3 == CapacityStep(w2, single)
        selectedLocation ==
            SelectLocation(availablePrioritizedLocations, availableLocations, r2)
    IN  PlaceStep(w3, objId, selectedLocation)

\* The body addObject and the loop of addObjectsBatch share, for a known
\* objId, with the two Math.random() draws r1 (forced displacement) and r2
\* (selection) given.
PlaceObject(w, objId, r1, r2, single) ==
    LET validLocationTypes == ObjectLocationData[objId].location
        w1 == DuplicateStep(w, objId)
        lists == getPrioritizedLocations(objId, validLocationTypes)
        free(l) == ~Includes(w1.locations, l)
        availablePrioritizedLocations == SelectSeq(lists.prioritized, free)
        availableFallbackLocations == SelectSeq(lists.fallback, free)
        available == availablePrioritizedLocations \o availableFallbackLocations
        allPossibleLocations == lists.prioritized \o lists.fallback
        forcedLocation == ForcedLocation(w1, lists.prioritized, allPossibleLocations, r1)
        w2 == IF Len(available) = 0 THEN ForcedStep(w1, forcedLocation) ELSE w1
        availableLocations == IF Len(available) = 0 THEN <<forcedLocation>> ELSE available
        w3 == CapacityStep(w2, single)
        selectedLocation ==
            SelectLocation(availablePrioritizedLocations, availableLocations, r2)
    IN  PlaceStep(w3, objId, selectedLocation)

---------------------------------------------------------------------------
(* The handlers' inputs *)

\* The object ids requests carry: catalog ids and one id the catalog lacks.
ObjectIds == {"3", "13", "21", "28", "30", "99"}

\* The objectIds bodies of POST /set-garden.
BatchLists == { <<"13", "99", "30", "28", "13">>, <<"3", "21">>, <<>> }

\* The set-garden request that loaded the garden of Loaded: with every
\* Math.random() returning 0 it fills M, B and RC, RM1 and H1.
LoadedIds == <<"3", "4", "7", "11", "12", "1", "9", "2", "8", "6", "10", "17",
               "24", "19", "23", "25", "27", "29", "5", "21">>

\* A list POST /set-garden refuses for its length: 23 ids (the empty list is
\* among BatchLists).
OversizedIds == [i \in 1..(MAX_CAPACITY + 1) |-> "3"]

\* The ids of the "Full Garden (22 objects)" test case.
FullIds == <<"1", "2", "3", "4", "5", "6", "7", "8", "9", "10", "11", "12", "13",
             "14", "15", "16", "17", "18", "19", "20", "21", "22">>

\* Fault variant of defaultObjects: the same ids in ascending order.
defaultObjectsAscending == <<"1", "3", "4", "15", "16", "18">>

\* "Add 6 default objects"
defaultObjects == <<"18", "1", "3", "16", "15", "4">>

---------------------------------------------------------------------------
(* Results and state updates *)

TheGarden == Garden(objects, locations, addingOrder, objectTimestamps)

EmptyGarden == Garden(<<>>, <<>>, <<>>, {})

\* getGardenState() while the garden is w and stateVersion is version
\* (lastModified, a Date.now() reading, is left out).
getGardenState(w, version) ==
    [objects |-> w.objects, locations |-> w.locations,
     addingOrder |-> w.addingOrder, objectTimestamps |-> w.objectTimestamps,
     stateVersion |-> version]

\* The gardenState literal of addObject's return value.
addObjectGardenState(w, version) ==
    [objects |-> w.objects, locations |-> w.locations,
     addingOrder |-> w.addingOrder, stateVersion |-> version]

\* What a handler returned; fields a handler does not return keep these values.
NoResult ==
    [op |-> "none", objectId |-> "", success |-> FALSE,
     removedObject |-> NoObject, location |-> <<"", 0>>,
     removedObjects |-> <<>>, oscArray |-> <<>>,
     total |-> 0, successful |-> 0, failed |-> 0, message |-> "",
     gardenState |-> getGardenState(EmptyGarden, 0)]

\* The result r with the gardenState getGardenState() returned.
WithGardenState(r, w, version) ==
    [r EXCEPT !.gardenState = getGardenState(w, version)]

\* The garden fields take the values of the work record w.
SetGardenTo(w) ==
    /\ objects' = w.objects
    /\ locations' = w.locations
    /\ addingOrder' = w.addingOrder
    /\ objectTimestamps' = w.objectTimestamps

\* Fault variant of resetInactivityTimer: the pending timer is not cleared
\* before the new one is set.
resetInactivityTimerKeepsPending(n) ==
    pendingTimeouts + (IF n > 0 THEN 1 ELSE 0)

\* The timers pending after resetInactivityTimer on a garden of n occupants:
\* clearTimeout cancels the one inactivityTimer refers to, if it is still
\* pending, and setTimeout starts one when n > 0.
resetInactivityTimer(n) ==
    (pendingTimeouts - (IF inactivityTimer THEN 1 ELSE 0))
       + (IF n > 0 THEN 1 ELSE 0)

\* Fault variant of updateStateMetadata: stateVersion is incremented once
\* more.
updateStateMetadataOnceMore(w, n) ==
    /\ stateVersion' = stateVersion + n + 1
    /\ inactivityTimer' = (Len(w.objects) > 0)
    /\ timerSetAt' = (IF Len(w.objects) > 0 THEN stateVersion' ELSE timerSetAt)
    /\ pendingTimeouts' = resetInactivityTimer(Len(w.objects))

\* Fault variant of updateStateMetadata: what oscPort.send throws leaves the
\* handler before it reaches updateStateMetadata.
updateStateMetadataUnlessThrown(w, n) ==
    IF oscPortFails
    THEN UNCHANGED <<stateVersion, inactivityTimer, timerSetAt,
                     pendingTimeouts>>
    ELSE /\ stateVersion' = stateVersion + n
         /\ inactivityTimer' = (Len(w.objects) > 0)
         /\ timerSetAt' = (IF Len(w.objects) > 0 THEN stateVersion' ELSE timerSetAt)
         /\ pendingTimeouts' = resetInactivityTimer(Len(w.objects))

\* updateStateMetadata after the garden became w, n times: stateVersion++
\* and resetInactivityTimer, which arms a timer only for a non-empty garden.
updateStateMetadata(w, n) ==
    /\ stateVersion' = stateVersion + n
    /\ inactivityTimer' = (Len(w.objects) > 0)
    /\ timerSetAt' = (IF Len(w.objects) > 0 THEN stateVersion' ELSE timerSetAt)
    /\ pendingTimeouts' = resetInactivityTimer(Len(w.objects))

\* The emitter calls of a handler that runs from its first statement to its
\* return in one step: sendObjectEvent and sendObjectArrayEvent catch what
\* oscPort.send throws, sending leaves the port as it is, and the handler
\* is not in progress before or after the step.
Emit(messages) ==
    /\ oscSent' = messages
    /\ UNCHANGED <<oscPortFails, inProgress, relayVars>>

\* Fault variant of SendEach: all the events go out in one call.
SendEachInOneCall(events) ==
    IF Len(events) = 0 THEN <<>>
    ELSE << [address |-> "/garden/object", events |-> events] >>

\* One sendObjectEvent call per event, in order.
SendEach(events) == [i \in 1..Len(events) |-> sendObjectEvent(events[i])]

---------------------------------------------------------------------------
(* addObject: POST /add/:number and the relay's add/<id>/session/<sid> *)

\* Every way addObject can end on garden g for a known objectId, before its
\* updateStateMetadata.
addObject(g, objectId) ==
    {PlaceObject(Work(g), objectId, r1, r2, TRUE) :
        r1 \in RandomValues, r2 \in RandomValues}

\* The call processAddObject(objectId), which calls addObject(objectId) on the
\* current garden: what it changes, sends and returns.
processAddObject(objectId) ==
    /\ stateVersion < MaxVersion
    /\ IF objectId \notin DOMAIN ObjectLocationData
       THEN /\ result' = [NoResult EXCEPT !.op = "addObject", !.objectId = objectId]
            /\ oscSent' = <<>>
            /\ UNCHANGED <<objects, locations, addingOrder, objectTimestamps,
                           stateVersion, inactivityTimer, timerSetAt,
                           pendingTimeouts>>
       ELSE \E w \in addObject(TheGarden, objectId) :
                  /\ SetGardenTo(w)
                  /\ updateStateMetadata(w, 1)
                  /\ oscSent' = SendEach(w.events)
                  /\ result' = [NoResult EXCEPT
                                  !.op = "addObject", !.objectId = objectId,
                                  !.success = TRUE,
                                  !.removedObject = w.removedObject,
                                  !.location = w.locations[Len(w.locations)],
                                  !.gardenState =
                                      addObjectGardenState(w, stateVersion')]

\* Fault variant of AddObject: the failure return comes after
\* updateStateMetadata.
AddObjectCountsFailure(objectId) ==
    /\ stateVersion < MaxVersion
    /\ IF objectId \notin DOMAIN ObjectLocationData
       THEN /\ result' = [NoResult EXCEPT !.op = "addObject", !.objectId = objectId]
            /\ Emit(<<>>)
            /\ updateStateMetadata(TheGarden, 1)
            /\ UNCHANGED <<objects, locations, addingOrder, objectTimestamps>>
       ELSE \E w \in addObject(TheGarden, objectId) :
                  /\ SetGardenTo(w)
                  /\ updateStateMetadata(w, 1)
                  /\ Emit(SendEach(w.events))
                  /\ result' = [NoResult EXCEPT
                                  !.op = "addObject", !.objectId = objectId,
                                  !.success = TRUE,
                                  !.removedObject = w.removedObject,
                                  !.location = w.locations[Len(w.locations)],
                                  !.gardenState =
                                      addObjectGardenState(w, stateVersion')]

AddObject(objectId) ==
    /\ processAddObject(objectId)
    /\ UNCHANGED <<oscPortFails, inProgress, relayVars>>

---------------------------------------------------------------------------
(* removeObject: the relay's check-garden/<id> *)

\* The call removeObject(objectId) on the current garden: what it changes,
\* sends and returns.
removeObject(objectId) ==
    /\ stateVersion < MaxVersion
    /\ LET objectIndex == IndexOf(objects, objectId)
           location == locations[objectIndex]
           w == EvictAt(Work(TheGarden), objectIndex)
       IN  IF objectIndex = 0
           THEN /\ result' = [NoResult EXCEPT !.op = "removeObject",
                                              !.objectId = objectId]
                /\ oscSent' = <<>>
                /\ UNCHANGED <<objects, locations, addingOrder, objectTimestamps,
                               stateVersion, inactivityTimer, timerSetAt,
                               pendingTimeouts>>
           ELSE /\ SetGardenTo(w)
                /\ updateStateMetadata(w, 1)
                /\ oscSent' = <<sendObjectEvent(OscEvent(objectId, location, FALSE))>>
                /\ result' = [NoResult EXCEPT
                                !.op = "removeObject", !.objectId = objectId,
                                !.success = TRUE,
                                !.removedObject = Removed(objectId, location, ""),
                                !.gardenState = getGardenState(w, stateVersion')]

\* Fault variant of RemoveObject: the occupant is removed without a removal
\* message.
RemoveObjectSilent(objectId) ==
    /\ stateVersion < MaxVersion
    /\ LET objectIndex == IndexOf(objects, objectId)
           location == locations[objectIndex]
           w == EvictAt(Work(TheGarden), objectIndex)
       IN  IF objectIndex = 0
           THEN /\ result' = [NoResult EXCEPT !.op = "removeObject",
                                              !.objectId = objectId]
                /\ Emit(<<>>)
                /\ UNCHANGED <<objects, locations, addingOrder, objectTimestamps,
                               stateVersion, inactivityTimer, timerSetAt,
                               pendingTimeouts>>
           ELSE /\ SetGardenTo(w)
                /\ updateStateMetadata(w, 1)
                /\ Emit(<<>>)
                /\ result' = [NoResult EXCEPT
                                !.op = "removeObject", !.objectId = objectId,
                                !.success = TRUE,
                                !.removedObject = Removed(objectId, location, ""),
                                !.gardenState = getGardenState(w, stateVersion')]

\* removeObject called on its own: nothing else changes.
RemoveObject(objectId) ==
    /\ removeObject(objectId)
    /\ UNCHANGED <<oscPortFails, inProgress, relayVars>>

---------------------------------------------------------------------------
(* clearGarden: POST /clear-garden *)

\* Fault variant of ClearEvents: only the first occupant is announced.
ClearEventsFirstOnly(g) ==
    [i \in 1..(IF Len(g.objects) > 0 THEN 1 ELSE 0) |->
        OscEvent(g.objects[i], g.locations[i], FALSE)]

\* The removal events of every occupant, in the order of objects.
ClearEvents(g) ==
    [i \in 1..Len(g.objects) |-> OscEvent(g.objects[i], g.locations[i], FALSE)]

ClearGarden ==
    /\ stateVersion < MaxVersion
    /\ SetGardenTo(EmptyGarden)
    /\ updateStateMetadata(EmptyGarden, 1)
    /\ Emit(SendEach(ClearEvents(TheGarden)))
    /\ result' = [NoResult EXCEPT
                    !.op = "clearGarden", !.success = TRUE,
                    !.gardenState = getGardenState(EmptyGarden, stateVersion')]

---------------------------------------------------------------------------
(* addObjectsBatch and POST /set-garden *)

\* A batch in progress: the work record and the two counters.
Batch(w) == [w |-> w, successCount |-> 0, failCount |-> 0]

\* Fault variant of ClearFirstStep: the garden is emptied but the removals are
\* not pushed onto the OSC array.
ClearFirstStepUnannounced(w) ==
    [w EXCEPT
        !.removedObjects = [i \in 1..Len(w.objects) |->
                               Removed(w.objects[i], w.locations[i], "cleared")],
        !.objects = <<>>, !.locations = <<>>, !.addingOrder = <<>>,
        !.objectTimestamps = {}]

\* "Clear garden first if requested": the removal of every occupant goes to
\* removedObjects and to the OSC array, and the garden is emptied.
ClearFirstStep(w) ==
    [w EXCEPT
        !.removedObjects = [i \in 1..Len(w.objects) |->
                               Removed(w.objects[i], w.locations[i], "cleared")],
        !.events = ClearEvents(w),
        !.objects = <<>>, !.locations = <<>>, !.addingOrder = <<>>,
        !.objectTimestamps = {}]

\* Fault variant of BatchItem: an id the catalog lacks is skipped without
\* being counted.
BatchItemUncounted(b, objId, randoms) ==
    IF objId \notin DOMAIN ObjectLocationData
    THEN {b}
    ELSE {[b EXCEPT !.w = PlaceObject(b.w, objId, r1, r2, FALSE),
                    !.successCount = @ + 1] :
            r1 \in randoms, r2 \in randoms}

\* Fault variant of BatchItem: an id already in the garden is counted and
\* left where it is.
BatchItemKeepsPlaced(b, objId, randoms) ==
    IF objId \notin DOMAIN ObjectLocationData
    THEN {[b EXCEPT !.failCount = @ + 1]}
    ELSE IF Includes(b.w.objects, objId)
    THEN {[b EXCEPT !.successCount = @ + 1]}
    ELSE {[b EXCEPT !.w = PlaceObject(b.w, objId, r1, r2, FALSE),
                    !.successCount = @ + 1] :
            r1 \in randoms, r2 \in randoms}

\* One pass of "for (const objectId of objectIds)": every way the pass can
\* end when Math.random() returns values of randoms.
BatchItem(b, objId, randoms) ==
    IF objId \notin DOMAIN ObjectLocationData
    THEN {[b EXCEPT !.failCount = @ + 1]}
    ELSE {[b EXCEPT !.w = PlaceObject(b.w, objId, r1, r2, FALSE),
                    !.successCount = @ + 1] :
            r1 \in randoms, r2 \in randoms}

RECURSIVE BatchLoop(_, _, _)
BatchLoop(batches, objectIds, randoms) ==
    IF objectIds = <<>> THEN batches
    ELSE BatchLoop(UNION {BatchItem(b, Head(objectIds), randoms) : b \in batches},
                   Tail(objectIds), randoms)

\* Every way addObjectsBatch(objectIds, clearFirst) can end on garden g,
\* before its updateStateMetadata.
addObjectsBatch(g, objectIds, clearFirst) ==
    BatchLoop({Batch(IF clearFirst THEN ClearFirstStep(Work(g)) ELSE Work(g))},
              objectIds, RandomValues)

BatchResult(b, objectIds) ==
    [NoResult EXCEPT !.op = "addObjectsBatch", !.success = TRUE,
                     !.removedObjects = b.w.removedObjects,
                     !.oscArray = b.w.events,
                     !.total = Len(objectIds),
                     !.successful = b.successCount, !.failed = b.failCount]

\* [...new Set(objectIds.map(id => id.toString()))]
RECURSIVE Unique(_, _)
Unique(seq, seen) ==
    IF seq = <<>> THEN <<>>
    ELSE IF Head(seq) \in seen THEN Unique(Tail(seq), seen)
         ELSE <<Head(seq)>> \o Unique(Tail(seq), seen \cup {Head(seq)})

\* Fault variant of Rejection: no upper limit on the length of the list.
RejectionWithoutLimit(objectIds) ==
    IF Len(objectIds) = 0 THEN "objectIds array cannot be empty"
    ELSE ""

\* "Validate input" for an array: the message of the 400 response, "" when
\* the route goes on.
Rejection(objectIds) ==
    IF Len(objectIds) = 0 THEN "objectIds array cannot be empty"
    ELSE IF Len(objectIds) > MAX_CAPACITY
         THEN "objectIds array cannot contain more than 22 objects"
    ELSE ""

\* The route rejects an empty list and a list of more than MAX_GARDEN_OBJECTS.
ValidObjectIds(objectIds) == Rejection(objectIds) = ""

SetGarden(objectIds, clearFirst) ==
    /\ stateVersion < MaxVersion
    /\ IF ~ValidObjectIds(objectIds)
       THEN /\ result' = [NoResult EXCEPT !.op = "set-garden",
                                          !.message = Rejection(objectIds)]
            /\ Emit(<<>>)
            /\ UNCHANGED <<objects, locations, addingOrder, objectTimestamps,
                           stateVersion, inactivityTimer, timerSetAt,
                           pendingTimeouts>>
       ELSE LET uniqueObjectIds == Unique(objectIds, {})
            IN  \E b \in addObjectsBatch(TheGarden, uniqueObjectIds, clearFirst) :
                  /\ SetGardenTo(b.w)
                  /\ updateStateMetadata(b.w, 1)
                  /\ Emit(sendObjectArrayEvent(b.w.events))
                  /\ result' = WithGardenState(BatchResult(b, uniqueObjectIds),
                                                b.w, stateVersion')

\* The route on a request body: isArray is what Array.isArray(objectIds)
\* gives; objectIds is read as a list only when it is one.
PostSetGarden(isArray, objectIds, clearFirst) ==
    IF isArray
    THEN SetGarden(objectIds, clearFirst)
    ELSE /\ stateVersion < MaxVersion
         /\ result' = [NoResult EXCEPT !.op = "set-garden",
                                       !.message = "objectIds must be an array"]
         /\ Emit(<<>>)
         /\ UNCHANGED <<objects, locations, addingOrder, objectTimestamps,
                        stateVersion, inactivityTimer, timerSetAt,
                        pendingTimeouts>>

---------------------------------------------------------------------------
(* removeOldestHalf: the cleanup the inactivity timer runs, also exported *)

\* Fault variant of RemoveEach: the loop stops after the first id.
RemoveEachFirstOnly(w, objectsToRemove) ==
    IF objectsToRemove = <<>> THEN w
    ELSE LET objId == Head(objectsToRemove)
             objectIndex == IndexOf(w.objects, objId)
             gone == Removed(objId, w.locations[objectIndex],
                             "auto_cleanup_inactivity")
         IN  IF objectIndex = 0 THEN w
             ELSE [w EXCEPT
                     !.objects = Splice(w.objects, objectIndex),
                     !.locations = Splice(w.locations, objectIndex),
                     !.objectTimestamps = w.objectTimestamps \ {objId},
                     !.removedObjects = Append(w.removedObjects, gone),
                     !.events = Append(w.events,
                                       OscEvent(objId, gone.location, FALSE))]

\* The loop over objectsToRemove: each id still in objects is announced and
\* spliced out of objects and locations, and its timestamp deleted.
RECURSIVE RemoveEach(_, _)
RemoveEach(w, objectsToRemove) ==
    IF objectsToRemove = <<>> THEN w
    ELSE LET objId == Head(objectsToRemove)
             objectIndex == IndexOf(w.objects, objId)
             gone == Removed(objId, w.locations[objectIndex],
                             "auto_cleanup_inactivity")
             w1 == IF objectIndex = 0 THEN w
                   ELSE [w EXCEPT
                           !.objects = Splice(w.objects, objectIndex),
                           !.locations = Splice(w.locations, objectIndex),
                           !.objectTimestamps = w.objectTimestamps \ {objId},
                           !.removedObjects = Append(w.removedObjects, gone),
                           !.events = Append(w.events,
                                             OscEvent(objId, gone.location, FALSE))]
         IN  RemoveEach(w1, Tail(objectsToRemove))

\* Fault variant of SliceFrom: nothing is sliced off.
SliceFromNothing(seq, n) == seq

\* seq.slice(n)
SliceFrom(seq, n) == SubSeq(seq, n + 1, Len(seq))

\* removeOldestHalf on the current garden; timerAfter is the timer it leaves
\* (it does not call resetInactivityTimer).
removeOldestHalf(timerAfter) ==
    LET countToRemove == Len(objects) \div 2
        objectsToRemove == SubSeq(addingOrder, 1, countToRemove)
        w0 == RemoveEach(Work(TheGarden), objectsToRemove)
        w == [w0 EXCEPT !.addingOrder = SliceFrom(addingOrder, countToRemove)]
    IN  /\ inactivityTimer' = timerAfter
        /\ timerSetAt' = timerSetAt
        /\ pendingTimeouts' = (IF inactivityTimer /\ ~timerAfter
                               THEN pendingTimeouts - 1 ELSE pendingTimeouts)
        /\ IF Len(objects) = 0 \/ countToRemove = 0
           THEN /\ result' = [NoResult EXCEPT !.op = "removeOldestHalf"]
                /\ Emit(<<>>)
                /\ UNCHANGED <<objects, locations, addingOrder, objectTimestamps,
                               stateVersion>>
           ELSE /\ SetGardenTo(w)
                /\ stateVersion' = stateVersion + 1
                /\ Emit(SendEach(w.events))
                /\ result' = [NoResult EXCEPT !.op = "removeOldestHalf",
                                              !.success = TRUE,
                                              !.removedObjects = w.removedObjects,
                                              !.gardenState =
                                                  getGardenState(w, stateVersion')]

\* A direct call of the exported function.
RemoveOldestHalf ==
    /\ stateVersion < MaxVersion
    /\ removeOldestHalf(inactivityTimer)

\* The setTimeout callback of resetInactivityTimer fires.
InactivityTimeout ==
    /\ stateVersion < MaxVersion
    /\ inactivityTimer
    /\ removeOldestHalf(FALSE)

---------------------------------------------------------------------------
(* initializeGarden *)

\* Every way the batch of the defaults can end on the cleared garden.
DefaultBatches == addObjectsBatch(EmptyGarden, defaultObjects, FALSE)

InitializeGarden ==
    /\ stateVersion + 2 <= MaxVersion
    /\ \E b \in DefaultBatches :
         /\ SetGardenTo(b.w)
         /\ updateStateMetadata(b.w, 2)
         /\ Emit(SendEach(ClearEvents(TheGarden))
                   \o sendObjectArrayEvent(b.w.events))
         /\ result' = [NoResult EXCEPT !.op = "initializeGarden", !.success = TRUE,
                                       !.successful = b.successCount,
                                       !.failed = b.failCount,
                                       !.gardenState =
                                           getGardenState(b.w, stateVersion')]

---------------------------------------------------------------------------
(* The specification *)

\* The garden as the module constructs it.
Constructed ==
    /\ objects = <<>>
    /\ locations = <<>>
    /\ addingOrder = <<>>
    /\ objectTimestamps = {}
    /\ stateVersion = 0
    /\ inactivityTimer = FALSE
    /\ timerSetAt = 0
    /\ pendingTimeouts = 0
    /\ oscPortFails = FALSE
    /\ inProgress = <<>>
    /\ relayConnected = FALSE
    /\ relaySent = <<>>
    /\ lastObjectId = ""
    /\ lastSessionId = ""
    /\ result = NoResult
    /\ oscSent = <<>>

\* The garden one request later: POST /set-garden with LoadedIds on the
\* constructed garden, every Math.random() having returned 0.
LoadedBatch ==
    CHOOSE b \in BatchLoop({Batch(Work(EmptyGarden))}, LoadedIds, {<<0, 1>>}) : TRUE

Loaded ==
    /\ objects = LoadedBatch.w.objects
    /\ locations = LoadedBatch.w.locations
    /\ addingOrder = LoadedBatch.w.addingOrder
    /\ objectTimestamps = LoadedBatch.w.objectTimestamps
    /\ stateVersion = 1
    /\ inactivityTimer = TRUE
    /\ timerSetAt = 1
    /\ pendingTimeouts = 1
    /\ oscPortFails = FALSE
    /\ inProgress = <<>>
    /\ relayConnected = FALSE
    /\ relaySent = <<>>
    /\ lastObjectId = ""
    /\ lastSessionId = ""
    /\ result = WithGardenState(BatchResult(LoadedBatch, LoadedIds),
                                LoadedBatch.w, 1)
    /\ oscSent = sendObjectArrayEvent(LoadedBatch.w.events)

\* The garden one request after construction when that request is the "full"
\* test case: POST /set-garden with clearFirst and FullIds, every
\* Math.random() having returned 0.
FullBatch ==
    CHOOSE b \in BatchLoop({Batch(ClearFirstStep(Work(EmptyGarden)))},
                           FullIds, {<<0, 1>>}) : TRUE

FullTested ==
    /\ objects = FullBatch.w.objects
    /\ locations = FullBatch.w.locations
    /\ addingOrder = FullBatch.w.addingOrder
    /\ objectTimestamps = FullBatch.w.objectTimestamps
    /\ stateVersion = 1
    /\ inactivityTimer = TRUE
    /\ timerSetAt = 1
    /\ pendingTimeouts = 1
    /\ oscPortFails = FALSE
    /\ inProgress = <<>>
    /\ relayConnected = FALSE
    /\ relaySent = <<>>
    /\ lastObjectId = ""
    /\ lastSessionId = ""
    /\ result = WithGardenState(BatchResult(FullBatch, FullIds), FullBatch.w, 1)
    /\ oscSent = sendObjectArrayEvent(FullBatch.w.events)

Init == Constructed \/ Loaded \/ FullTested

Next ==
    \/ \E objectId \in ObjectIds : AddObject(objectId)
    \/ \E objectId \in ObjectIds : RemoveObject(objectId)
    \/ ClearGarden
    \/ \E objectIds \in BatchLists, clearFirst \in BOOLEAN :
             SetGarden(objectIds, clearFirst)
    \/ RemoveOldestHalf
    \/ InactivityTimeout
    \/ InitializeGarden

Spec == Init /\ [][Next]_vars

---------------------------------------------------------------------------
(* Properties of the garden *)

\* How often x occurs in seq.
Count(seq, x) == Cardinality({i \in 1..Len(seq) : seq[i] = x})

NoRepeats(seq) == \A i, j \in 1..Len(seq) : i # j => seq[i] # seq[j]

\* The slots of the categories the catalog permits for object x.
PermittedLocations(x) ==
    UNION {Range(LocationData[t]) :
             t \in Range(ObjectLocationData[x].location) \cap DOMAIN LocationData}

\* The slots of the preferred category of x (empty when x has none).
PreferredLocations(x) ==
    IF x \in DOMAIN PrioritizedPositionMap
    THEN Range(LocationData[PrioritizedPositionMap[x]])
    ELSE {}

\* The slots some object other than x occupies now: the occupied slots once
\* any placement of x itself has been removed.
OccupiedByOthers(x) == {locations[i] : i \in {j \in 1..Len(objects) : objects[j] # x}}

\* This step is a call addObject(x) that succeeded.
AddedStep(x) ==
    /\ result'.op = "addObject"
    /\ result'.objectId = x
    /\ result'.success

\* The garden never fills: only object "21" may stand on H1 or H2 and it
\* stands on one slot at a time, so the "oldest" eviction of the capacity
\* check has no state to act in.
GardenNeverFull == Len(objects) < MAX_CAPACITY

\* C1: in every reachable state the garden holds at most 22 occupants,
\* whatever sequence of add, remove, batch add, clear, oldest-half cleanup,
\* initialize and idle-timer steps led there.
C1_AtMostCapacity ==
    /\ Len(objects) <= MAX_CAPACITY
    /\ Len(locations) <= MAX_CAPACITY

\* An add has succeeded on a garden that now holds 21 occupants.
C1_Witness ==
    /\ result.op = "addObject"
    /\ result.success
    /\ Len(objects) = 21

\* C2: in every reachable state the slot ids of the occupants are pairwise
\* distinct: no slot holds two objects.
C2_SlotsDistinct ==
    /\ Len(locations) = Len(objects)
    /\ NoRepeats(locations)

\* A forced displacement has put the added object on a slot that was taken,
\* in a garden of 20 occupants.
C2_Witness ==
    /\ result.op = "addObject"
    /\ result.removedObject.reason = "forced_displacement"
    /\ Count(locations, result.removedObject.location) = 1
    /\ Len(objects) = 20

\* C3: in every reachable state the object ids of the occupants are pairwise
\* distinct: no object is placed twice.
C3_ObjectsDistinct == NoRepeats(objects)

\* An id that was placed has been added again, next to other occupants.
C3_Witness ==
    /\ result.op = "addObject"
    /\ result.removedObject.reason = "duplicate"
    /\ Count(objects, result.objectId) = 1
    /\ Len(objects) > 1

\* C4: in every reachable state the key set of the timestamps mapping equals
\* the set of object ids currently placed.
C4_TimestampKeysArePlacedIds == objectTimestamps = Range(objects)

\* The oldest-half cleanup has removed some occupants and left others.
C4_Witness ==
    /\ result.op = "removeOldestHalf"
    /\ Len(result.removedObjects) > 0
    /\ objectTimestamps # {}

\* C5: in every reachable state the addition order holds exactly the object
\* ids currently placed, each exactly once.
C5_AdditionOrderIsPlacedIds ==
    /\ Range(addingOrder) = Range(objects)
    /\ NoRepeats(addingOrder)

\* The oldest-half cleanup has cut the head off an addition order of 20 ids.
C5_Witness ==
    /\ result.op = "removeOldestHalf"
    /\ Len(result.removedObjects) = 10
    /\ Len(addingOrder) = 10

\* C6: in every reachable state every occupant's slot belongs to a category
\* the catalog permits for that occupant's object, forced displacement
\* included.
C6_SlotsArePermitted ==
    \A i \in 1..Len(objects) :
        /\ objects[i] \in DOMAIN ObjectLocationData
        /\ i <= Len(locations)
        /\ locations[i] \in PermittedLocations(objects[i])

\* A forced displacement has placed an object that has no preferred category.
C6_Witness ==
    /\ result.op = "addObject"
    /\ result.removedObject.reason = "forced_displacement"
    /\ result.objectId \notin DOMAIN PrioritizedPositionMap
    /\ result.location \in PermittedLocations(result.objectId)

\* C7: adding an object id that is already placed leaves exactly one occupant
\* for that id, and the events of the call are exactly one removal event for
\* the id at its old slot followed by exactly one addition event for the id
\* at its new slot.
C7_ReAddReplaces ==
    [][\A x \in ObjectIds :
         AddedStep(x) /\ Includes(objects, x) =>
            /\ Count(objects', x) = 1
            /\ locations'[IndexOf(objects', x)] = result'.location
            /\ oscSent' =
                 << sendObjectEvent(OscEvent(x, locations[IndexOf(objects, x)], FALSE)),
                    sendObjectEvent(OscEvent(x, result'.location, TRUE)) >>]_vars

\* A placed id has been added again in a garden of 20 occupants and two
\* messages went out.
C7_Witness ==
    /\ result.op = "addObject"
    /\ result.removedObject.reason = "duplicate"
    /\ Len(objects) = 20
    /\ Len(oscSent) = 2

\* C8: when add(x) is called for an object with a preferred category and,
\* after any duplicate removal of x, a slot of that category is free, x is
\* placed in a free slot of the preferred category; x lands in another
\* permitted category only when no slot of the preferred category is free.
C8_PreferredCategoryFirst ==
    [][\A x \in ObjectIds :
         AddedStep(x) /\ x \in DOMAIN PrioritizedPositionMap =>
            LET freePreferred == PreferredLocations(x) \ OccupiedByOthers(x)
                placed == locations'[IndexOf(objects', x)]
            IN  /\ placed = result'.location
                /\ freePreferred # {} => placed \in freePreferred
                /\ placed \notin PreferredLocations(x) =>
                      /\ freePreferred = {}
                      /\ placed \in PermittedLocations(x)]_vars

\* An object with a preferred category sits on the only free slot of that
\* category while a slot of another permitted category is free.
C8_Witness ==
    /\ result.op = "addObject"
    /\ result.success
    /\ result.objectId \in DOMAIN PrioritizedPositionMap
    /\ result.location \in PreferredLocations(result.objectId)
    /\ PreferredLocations(result.objectId) \subseteq Range(locations)
    /\ PermittedLocations(result.objectId) \ Range(locations) # {}

C11_FullTestFillsGarden ==
    (result.op = "addObjectsBatch" /\ result.total = Len(FullIds)) =>
        Len(objects) = MAX_CAPACITY

\* C12: add(x) for an id that is not in the object catalog returns a failure
\* and changes nothing: occupants, slots, addition order, timestamps and
\* version are unchanged and no event is emitted.
C12_UnknownAddChangesNothing ==
    [][\A x \in ObjectIds :
         (/\ result'.op = "addObject"
          /\ result'.objectId = x
          /\ x \notin DOMAIN ObjectLocationData) =>
            /\ ~result'.success
            /\ UNCHANGED <<objects, locations, addingOrder, objectTimestamps,
                           stateVersion>>
            /\ oscSent' = <<>>]_vars

\* An add of an id the catalog lacks has failed on a garden with occupants.
C12_Witness ==
    /\ result.op = "addObject"
    /\ result.objectId \notin DOMAIN ObjectLocationData
    /\ ~result.success
    /\ Len(objects) > 0
    /\ oscSent = <<>>

\* The pairs <<object id, slot id>> of the occupants of a garden.
Placements(objs, locs) == {<<objs[i], locs[i]>> : i \in 1..Len(objs)}

\* seq without its entries equal to one of xs, order kept.
Without(seq, xs) == SelectSeq(seq, LAMBDA y : y \notin xs)

\* C13: remove(x) for an id that is not placed returns a failure and leaves
\* the whole state, version included, unchanged; for a placed id it removes
\* exactly that occupant, emits exactly one removal event carrying the slot x
\* occupied, and increases version by one.
C13_RemoveObject ==
    [][\A x \in ObjectIds :
         (result'.op = "removeObject" /\ result'.objectId = x) =>
            IF ~Includes(objects, x)
            THEN /\ ~result'.success
                 /\ UNCHANGED <<objects, locations, addingOrder, objectTimestamps,
                                stateVersion, inactivityTimer, timerSetAt,
                                pendingTimeouts>>
                 /\ oscSent' = <<>>
            ELSE /\ result'.success
                 /\ objects' = Without(objects, {x})
                 /\ Placements(objects', locations') =
                      Placements(objects, locations)
                        \ {<<x, locations[IndexOf(objects, x)]>>}
                 /\ Len(locations') = Len(objects')
                 /\ addingOrder' = Without(addingOrder, {x})
                 /\ objectTimestamps' = objectTimestamps \ {x}
                 /\ oscSent' = << sendObjectEvent(
                                    OscEvent(x, locations[IndexOf(objects, x)], FALSE)) >>
                 /\ stateVersion' = stateVersion + 1]_vars

\* A placed object has been removed from among other occupants.
C13_Witness ==
    /\ result.op = "removeObject"
    /\ result.success
    /\ Len(oscSent) = 1
    /\ Len(objects) > 1
    /\ ~Includes(objects, result.objectId)

\* C14: every successful add, remove, clear, removeOldestHalf on at least 2
\* occupants and addBatch of N items increases version by exactly 1 (a batch
\* by 1, never by N), and version never decreases.
C14_OneVersionPerMutation ==
    [][/\ stateVersion' >= stateVersion
       /\ (\/ result'.op \in {"addObject", "removeObject"} /\ result'.success
           \/ result'.op \in {"clearGarden", "addObjectsBatch"}
           \/ result'.op = "removeOldestHalf" /\ Len(objects) >= 2)
          => stateVersion' = stateVersion + 1]_vars

\* A batch of four items, three of them placed, has taken the version from
\* 0 to 1.
C14_Witness ==
    /\ result.op = "addObjectsBatch"
    /\ result.total = 4
    /\ result.successful = 3
    /\ stateVersion = 1

\* C15: initializeGarden increases version by exactly one for the whole
\* clear-then-seed operation and hands the emitter one combined ordered event
\* list: the removals of the cleared occupants followed by the additions of
\* the defaults.
C15_ReinitializeIsOneMutation ==
    [][result'.op = "initializeGarden" =>
         /\ stateVersion' = stateVersion + 1
         /\ Len(oscSent') = 1
         /\ LET events == oscSent'[1].events
                 cleared == ClearEvents(TheGarden)
             IN  /\ Len(events) >= Len(cleared)
                 /\ SubSeq(events, 1, Len(cleared)) = cleared
                 /\ \A i \in (Len(cleared) + 1)..Len(events) : events[i].isAdd]_vars

C17_ClearGarden ==
    [][result'.op = "clearGarden" =>
         /\ objects' = <<>>
         /\ locations' = <<>>
         /\ addingOrder' = <<>>
         /\ objectTimestamps' = {}
         /\ Len(oscSent') = Len(objects)
         /\ \A i \in 1..Len(objects) :
               /\ oscSent'[i].address = "/garden/object"
               /\ oscSent'[i].events =
                    << [objectId |-> objects[i], locationId |-> locations[i],
                        locationType |-> locations[i][1], isAdd |-> FALSE] >>
         /\ stateVersion' = stateVersion + 1]_vars

\* A garden of several occupants has been cleared.
C17_Witness ==
    /\ result.op = "clearGarden"
    /\ objects = <<>>
    /\ objectTimestamps = {}
    /\ Len(oscSent) >= 16

\* The object ids of the addition events of an event list, in order.
AddedIds(events) ==
    LET adds == SelectSeq(events, LAMBDA e : e.isAdd)
    IN  [i \in 1..Len(adds) |-> adds[i].objectId]

\* This step is a POST /set-garden that handed the list ids, deduplicated, to
\* addObjectsBatch (the lists of BatchLists differ in their number of
\* distinct ids, which the summary returns as total).
BatchStep(ids) ==
    /\ result'.op = "addObjectsBatch"
    /\ result'.total = Len(Unique(ids, {}))

\* This step's addObjectsBatch ran its clearFirst branch on a garden with
\* occupants: only that branch returns removals with the reason "cleared".
ClearedFirst ==
    /\ result'.removedObjects # <<>>
    /\ result'.removedObjects[1].reason = "cleared"

\* C18: addBatch(ids, clearFirst = true) on a non-empty garden returns an
\* event list that begins with one removal event for every prior occupant,
\* before any event of a batch item, followed by the per-item events in input
\* order; afterwards every occupant is one of the batch ids, and for a batch
\* of known ids that all fit without displacement the list ends with one
\* addition per id and the occupant count equals the batch size.
C18_ClearFirstBatch ==
    [][\A ids \in BatchLists :
         BatchStep(ids) /\ ClearedFirst /\ objects # <<>> =>
            LET given == Unique(ids, {})
                known == SelectSeq(given, LAMBDA x : x \in DOMAIN ObjectLocationData)
                events == result'.oscArray
                k == Len(objects)
                items == SubSeq(events, k + 1, Len(events))
            IN  /\ Len(events) >= k
                /\ \A i \in 1..k :
                      events[i] = [objectId |-> objects[i], locationId |-> locations[i],
                                   locationType |-> locations[i][1], isAdd |-> FALSE]
                /\ AddedIds(items) = known
                /\ known # <<>> => items[Len(items)].isAdd
                /\ Range(objects') \subseteq Range(given)
                /\ (known = given /\ \A i \in 1..Len(items) : items[i].isAdd) =>
                      /\ Len(items) = Len(given)
                      /\ Len(objects') = Len(given)
                      /\ objects' = given]_vars

\* A clear-first batch of two known ids has replaced a garden of 16 or more
\* occupants: the list holds their removals and then two additions.
C18_Witness ==
    /\ result.op = "addObjectsBatch"
    /\ result.total = 2
    /\ result.successful = 2
    /\ Len(objects) = 2
    /\ Len(result.oscArray) >= 18
    /\ ~result.oscArray[1].isAdd
    /\ result.oscArray[Len(result.oscArray)].isAdd

---------------------------------------------------------------------------
(* addObjectsBatch as a function of the garden and the list *)

\* The garden under POST /set-garden requests and cleanups only.
NextBatch ==
    \/ \E isArray \in BOOLEAN, objectIds \in BatchLists \cup {OversizedIds},
          clearFirst \in BOOLEAN :
             PostSetGarden(isArray, objectIds, clearFirst)
    \/ RemoveOldestHalf

SpecBatch == Init /\ [][NextBatch]_vars

\* The ids of seq the catalog knows, order kept.
Known(seq) == SelectSeq(seq, LAMBDA x : x \in DOMAIN ObjectLocationData)

\* Every outcome of the batch counts k successes and n - k failures, and the
\* batch without the unknown ids has the same outcomes: gardens, removals
\* and events.
SameOutcomes(withUnknown, without, n, k) ==
    /\ {b.w : b \in withUnknown} = {b.w : b \in without}
    /\ \A b \in withUnknown : b.successCount = k /\ b.failCount = n - k
    /\ \A b \in without : b.successCount = k /\ b.failCount = 0

\* C19: an unknown object id inside an addBatch list is skipped and counted
\* as failed without aborting the batch: all other ids are processed exactly
\* as if the unknown id were absent, and successful + failed equals the
\* length of the list handed to addBatch.  Stated of every garden a request
\* can be served on and of every list that holds an unknown id.
C19_UnknownIdSkipped ==
    /\ result.op = "addObjectsBatch" =>
          result.successful + result.failed = result.total
    /\ stateVersion < MaxVersion =>
          \A ids \in {l \in BatchLists : Known(l) # l}, clearFirst \in BOOLEAN :
              SameOutcomes(
                  addObjectsBatch(TheGarden, Unique(ids, {}), clearFirst),
                  addObjectsBatch(TheGarden, Known(Unique(ids, {})), clearFirst),
                  Len(Unique(ids, {})), Len(Known(Unique(ids, {}))))

\* A batch of four ids, one of them unknown, has placed the other three.
C19_Witness ==
    /\ result.op = "addObjectsBatch"
    /\ result.total = 4
    /\ result.failed = 1
    /\ result.successful = 3
    /\ {"13", "30", "28"} \subseteq Range(objects)

\* C20: removeOldestHalf on a garden of k occupants removes exactly
\* floor(k/2) occupants, namely the first floor(k/2) entries of the addition
\* order, emitting one removal event each and increasing version by one;
\* with k = 0 or k = 1 it changes nothing: no eviction, no event, no version
\* bump.
C20_RemoveOldestHalf ==
    [][result'.op = "removeOldestHalf" =>
         LET k == Len(objects)
             n == k \div 2
             oldest == SubSeq(addingOrder, 1, n)
         IN  IF k <= 1
             THEN /\ UNCHANGED <<objects, locations, addingOrder, objectTimestamps,
                                 stateVersion>>
                  /\ oscSent' = <<>>
             ELSE /\ Len(objects') = k - n
                  /\ objects' = Without(objects, Range(oldest))
                  /\ Placements(objects', locations') =
                       {p \in Placements(objects, locations) : p[1] \notin Range(oldest)}
                  /\ Len(locations') = k - n
                  /\ addingOrder' = SubSeq(addingOrder, n + 1, Len(addingOrder))
                  /\ objectTimestamps' = objectTimestamps \ Range(oldest)
                  /\ Len(oscSent') = n
                  /\ \A i \in 1..n :
                        /\ oscSent'[i].address = "/garden/object"
                        /\ oscSent'[i].events =
                             << [objectId |-> oldest[i],
                                 locationId |-> locations[IndexOf(objects, oldest[i])],
                                 locationType |->
                                     locations[IndexOf(objects, oldest[i])][1],
                                 isAdd |-> FALSE] >>
                  /\ stateVersion' = stateVersion + 1]_vars

\* The cleanup of a garden of three occupants has removed one, the oldest.
C20_Witness ==
    /\ result.op = "removeOldestHalf"
    /\ Len(result.removedObjects) = 1
    /\ Len(objects) = 2
    /\ Len(oscSent) = 1
    /\ stateVersion = 2

---------------------------------------------------------------------------
(* The inactivity timer *)

\* The step is the setTimeout callback of resetInactivityTimer: the pending
\* timer is consumed by a run of removeOldestHalf.
TimerFires ==
    /\ inactivityTimer
    /\ ~inactivityTimer'
    /\ result'.op = "removeOldestHalf"

\* C21: when the idle timer fires while the garden holds between 1 and 6
\* occupants, the occupants are left unchanged; when it fires with 0 or with
\* 7 or more occupants, the garden is reinitialized and ends with exactly
\* the 6 default objects placed.
C21_IdleProtection ==
    [][TimerFires =>
         IF Len(objects) \in 1..6
         THEN UNCHANGED <<objects, locations>>
         ELSE /\ Len(objects') = Len(defaultObjects)
              /\ Range(objects') = Range(defaultObjects)]_vars

\* C22: every operation that increases version restarts the idle countdown,
\* including the maintenance operation removeOldestHalf: after any version
\* bump a countdown is pending that was started at that bump, so a full idle
\* interval must elapse before the idle action can fire.
C22_EveryBumpRestartsCountdown ==
    [][stateVersion' > stateVersion =>
         /\ inactivityTimer'
         /\ timerSetAt' = stateVersion']_vars

\* The program from its constructed state, with the scheduling of setTimeout:
\* a pending timer that is not cleared is run by the event loop.
SpecFair == Constructed /\ [][Next]_vars /\ WF_vars(InactivityTimeout)

\* The timer callback has run since the last mutation: a timer is armed
\* whenever a mutation leaves occupants, and only the callback consumes it
\* while occupants remain.
Fired ==
    /\ ~inactivityTimer
    /\ objects # <<>>

\* C23: after any mutation that is followed by no further mutation, the idle
\* action eventually fires (under fairness of the timer), also when the
\* mutation left the garden empty: from every state whose version a mutation
\* produced, either the version changes again or the timer callback runs.
C23_IdleActionEventuallyFires ==
    \A v \in 1..(MaxVersion - 1) :
        (stateVersion = v) ~> (stateVersion # v \/ Fired)

---------------------------------------------------------------------------
(* The events of one operation *)

\* The event of the i-th emitter call of this step.
SentEvent(i) == oscSent'[i].events[1]

\* The occupants other than x that this step removed.
Displaced(x) ==
    {j \in 1..Len(objects) : objects[j] # x /\ objects[j] \notin Range(objects')}

\* C24: within one successful add call the events are emitted in this order:
\* the removal events of that call (duplicate, then forced displacement,
\* then oldest) and then exactly one addition event for the new placement;
\* no addition event is emitted for a slot before the removal event of the
\* object that occupied it.
C24_RemovalsThenOneAddition ==
    [][\A x \in ObjectIds :
         AddedStep(x) =>
            LET n == Len(oscSent')
                slot == locations'[Len(locations')]
                first == IF Includes(objects, x) THEN 2 ELSE 1
            IN  /\ n >= 1
                /\ \A i \in 1..n : Len(oscSent'[i].events) = 1
                /\ SentEvent(n) = OscEvent(x, slot, TRUE)
                /\ \A i \in 1..(n - 1) : ~SentEvent(i).isAdd
                /\ Includes(objects, x) =>
                      SentEvent(1) =
                          OscEvent(x, locations[IndexOf(objects, x)], FALSE)
                /\ n - first = Cardinality(Displaced(x))
                /\ \A j \in Displaced(x) :
                      \E i \in first..(n - 1) :
                          SentEvent(i) = OscEvent(objects[j], locations[j], FALSE)
                /\ \A j \in 1..Len(objects) :
                      locations[j] = slot =>
                         \E i \in 1..(n - 1) :
                             SentEvent(i) = OscEvent(objects[j], slot, FALSE)]_vars

\* An add has displaced the occupant of its slot: the removal of that
\* occupant went out first, the addition at the same slot second.
C24_Witness ==
    /\ result.op = "addObject"
    /\ result.success
    /\ result.removedObject.reason = "forced_displacement"
    /\ Len(oscSent) = 2
    /\ ~oscSent[1].events[1].isAdd
    /\ oscSent[1].events[1].objectId = result.removedObject.id
    /\ oscSent[2].events[1].isAdd
    /\ oscSent[2].events[1].locationId = oscSent[1].events[1].locationId

\* C25 as stated: for every operation the engine calls the notification
\* emitter exactly once, with the complete ordered event list of that
\* operation; an operation that produces several events (an add that evicts,
\* clear, removeOldestHalf) never results in several separate emitter calls.
C25_OneEmitterCallPerOperation ==
    [][oscSent' # <<>> =>
         /\ Len(oscSent') = 1
         /\ Len(oscSent'[1].events) >=
               Cardinality(Range(objects) \ Range(objects'))]_vars

\* The ids this step announces as removed, when it is not a batch: the
\* occupants that left, and the id re-added by a successful add.
Left ==
    {x \in Range(objects) :
        \/ x \notin Range(objects')
        \/ result'.op = "addObject" /\ result'.success /\ result'.objectId = x}

\* The emitter calls of this step all carry one event on /garden/object.
SingleCalls(n) ==
    \A i \in 1..n :
        /\ oscSent'[i].address = "/garden/object"
        /\ Len(oscSent'[i].events) = 1

\* C25, amended: a batch add calls the emitter once, with the complete
\* ordered event list of the batch, and sends nothing when that list is
\* empty; every other operation calls the emitter once per event, so an
\* operation that produces several events results in that many separate
\* calls; initializeGarden makes the calls of its clear and then the one
\* call of its batch.
C25_EmitterCalls ==
    [][/\ result'.op = "addObjectsBatch" =>
             oscSent' = IF result'.oscArray = <<>> THEN <<>>
                        ELSE << [address |-> "/garden/objects",
                                 events |-> result'.oscArray] >>
       /\ result'.op \in {"addObject", "removeObject", "clearGarden",
                          "removeOldestHalf"} =>
             /\ SingleCalls(Len(oscSent'))
             /\ Len(oscSent') =
                   Cardinality(Left)
                     + (IF result'.op = "addObject" /\ result'.success THEN 1 ELSE 0)
             /\ \A x \in Left :
                   \E i \in 1..Len(oscSent') :
                       /\ SentEvent(i).objectId = x
                       /\ ~SentEvent(i).isAdd
       /\ result'.op = "initializeGarden" =>
             /\ Len(oscSent') = Len(objects) + 1
             /\ SingleCalls(Len(objects))
             /\ \A i \in 1..Len(objects) :
                   SentEvent(i) = OscEvent(objects[i], locations[i], FALSE)
             /\ oscSent'[Len(oscSent')].address = "/garden/objects"
             /\ Len(oscSent'[Len(oscSent')].events) = Len(objects')]_vars

\* The cleanup of the garden of 20 occupants has made ten emitter calls, one
\* per removed occupant.
C25_Witness ==
    /\ result.op = "removeOldestHalf"
    /\ Len(result.removedObjects) = 10
    /\ Len(oscSent) = 10
    /\ \A i \in 1..10 :
          /\ Len(oscSent[i].events) = 1
          /\ oscSent[i].events[1].objectId = result.removedObjects[i].id

---------------------------------------------------------------------------
(* A consumer of the emitted events *)

\* The consumer applies one event to the (object, slot) pairs it holds.
ApplyEvent(held, event) ==
    IF event.isAdd
    THEN held \cup {<<event.objectId, event.locationId>>}
    ELSE held \ {<<event.objectId, event.locationId>>}

\* The events of one message, applied in order.
RECURSIVE ApplyEvents(_, _)
ApplyEvents(held, events) ==
    IF events = <<>> THEN held
    ELSE ApplyEvents(ApplyEvent(held, Head(events)), Tail(events))

\* The messages of one operation, applied in emission order.
RECURSIVE ApplyMessages(_, _)
ApplyMessages(held, messages) ==
    IF messages = <<>> THEN held
    ELSE ApplyMessages(ApplyEvents(held, Head(messages).events), Tail(messages))

\* C26: a consumer that starts empty and applies every emitted event in
\* emission order (single-event messages and batch arrays) holds, after each
\* completed operation, exactly the engine's set of (object, slot) pairs:
\* it does after the first request, and every later operation takes a
\* consumer holding the engine's pairs to the engine's new pairs.
C26_ConsumerFollowsEngine ==
    /\ ApplyMessages({}, oscSent) = Placements(objects, locations)
    /\ [][ApplyMessages(Placements(objects, locations), oscSent')
             = Placements(objects', locations')]_vars

\* A batch has replaced a garden of 20 occupants: its array removed them and
\* added the new ones, and a consumer that held the 20 now holds the new.
C26_Witness ==
    /\ result.op = "addObjectsBatch"
    /\ Len(result.removedObjects) >= 20
    /\ Len(objects) >= 2
    /\ Len(oscSent) = 1
    /\ ApplyMessages({<<result.removedObjects[i].id, result.removedObjects[i].location>> :
                          i \in 1..20}, oscSent)
          = Placements(objects, locations)

---------------------------------------------------------------------------
(* The returned state snapshot *)

\* The fields of a state snapshot (lastModified is a clock reading both
\* sides copy from GardenData and is not modelled).
SnapshotFields ==
    {"objects", "locations", "addingOrder", "objectTimestamps", "stateVersion"}

\* C27: the state snapshot carried in the result of a successful add is
\* equal, field for field (occupants, slots, additionOrder, timestamps,
\* version), to what getGardenState() returns immediately after that call.
C27_AddSnapshotIsGetState ==
    (result.op = "addObject" /\ result.success) =>
        \A f \in SnapshotFields :
            /\ f \in DOMAIN result.gardenState
            /\ result.gardenState[f] = getGardenState(TheGarden, stateVersion)[f]

---------------------------------------------------------------------------
(* Malformed batch requests *)

\* A batch request is malformed: objectIds is no array, is empty or is
\* longer than 22.
Malformed(isArray, objectIds) ==
    \/ ~isArray
    \/ Len(objectIds) = 0
    \/ Len(objectIds) > 22

\* C28: a malformed batch request (objectIds not an array, an empty list, or
\* a list longer than 22) is rejected at the command boundary before any
\* engine call: occupants, additionOrder, timestamps and version are
\* unchanged and no event is emitted.
C28_MalformedBatchRejected ==
    [][\A isArray \in BOOLEAN, objectIds \in BatchLists \cup {OversizedIds},
          clearFirst \in BOOLEAN :
            (/\ Malformed(isArray, objectIds)
             /\ PostSetGarden(isArray, objectIds, clearFirst)) =>
               /\ ~result'.success
               /\ result'.message # ""
               /\ UNCHANGED <<objects, locations, addingOrder, objectTimestamps,
                              stateVersion, inactivityTimer>>
               /\ oscSent' = <<>>]_vars

\* A list of 23 ids has been refused on the garden of 20 occupants, which
\* stands as it was.
C28_Witness ==
    /\ result.op = "set-garden"
    /\ result.message = "objectIds array cannot contain more than 22 objects"
    /\ Len(objects) = 20
    /\ stateVersion = 1
    /\ oscSent = <<>>

---------------------------------------------------------------------------
(* A failing emitter *)

\* The garden as the module constructs it, with a UDP port whose send throws.
ConstructedPortFails ==
    /\ objects = <<>>
    /\ locations = <<>>
    /\ addingOrder = <<>>
    /\ objectTimestamps = {}
    /\ stateVersion = 0
    /\ inactivityTimer = FALSE
    /\ timerSetAt = 0
    /\ pendingTimeouts = 0
    /\ oscPortFails = TRUE
    /\ inProgress = <<>>
    /\ relayConnected = FALSE
    /\ relaySent = <<>>
    /\ lastObjectId = ""
    /\ lastSessionId = ""
    /\ result = NoResult
    /\ oscSent = <<>>

\* The program while every oscPort.send throws.
SpecEmitter == ConstructedPortFails /\ [][Next]_vars

---------------------------------------------------------------------------
(* The handlers statement by statement, under the event loop *)

\* A callback that has made its first access to GardenData and has not
\* returned: its handler, its argument, the garden it found and its local
\* variables so far.
Frame(handler, objectId, entry, w) ==
    [handler |-> handler, objectId |-> objectId, entry |-> entry, w |-> w]

\* Fault variant of Yields: a handler awaits between its statements.
YieldsMidway(frame) == TRUE

\* Whether a callback in progress has handed control back to the event
\* loop: no handler has an await, a promise or a continuation callback, the
\* only scheduling call is the setTimeout of resetInactivityTimer.
Yields(frame) == FALSE

\* The event loop starts a callback (an HTTP route, relaySocket.on('msg'),
\* the setTimeout callback) when no callback is running.
LoopIdle == \A i \in 1..Len(inProgress) : Yields(inProgress[i])

\* The garden fields of a frame's local variables are those of GardenData.
OnGardenData(w) ==
    [w EXCEPT !.objects = objects, !.locations = locations,
              !.addingOrder = addingOrder,
              !.objectTimestamps = objectTimestamps]

\* addObject up to the end of "Check for existence and remove if duplicate".
BeginAddObject(objectId) ==
    /\ stateVersion < MaxVersion
    /\ LoopIdle
    /\ IF objectId \notin DOMAIN ObjectLocationData
       THEN /\ result' = [NoResult EXCEPT !.op = "addObject", !.objectId = objectId]
            /\ oscSent' = <<>>
            /\ UNCHANGED <<objects, locations, addingOrder, objectTimestamps,
                           stateVersion, inactivityTimer, timerSetAt, pendingTimeouts,
                           oscPortFails, relayVars, inProgress>>
       ELSE LET w == DuplicateStep(Work(TheGarden), objectId)
            IN  /\ SetGardenTo(w)
                /\ inProgress' = Append(inProgress,
                                        Frame("addObject", objectId, TheGarden, w))
                /\ oscSent' = SendEach(w.events)
                /\ UNCHANGED <<stateVersion, inactivityTimer, timerSetAt, pendingTimeouts,
                               oscPortFails, relayVars, result>>

\* addObject from there to its return.
EndAddObject ==
    \E i \in 1..Len(inProgress), r1 \in RandomValues, r2 \in RandomValues :
       LET frame == inProgress[i]
           w == PlaceObject(OnGardenData(frame.w), frame.objectId, r1, r2, TRUE)
       IN  /\ frame.handler = "addObject"
           /\ SetGardenTo(w)
           /\ updateStateMetadata(w, 1)
           /\ oscSent' = SendEach(w.events)
           /\ inProgress' = Splice(inProgress, i)
           /\ result' = [NoResult EXCEPT
                           !.op = "addObject", !.objectId = frame.objectId,
                           !.success = TRUE,
                           !.removedObject = w.removedObject,
                           !.location = w.locations[Len(w.locations)],
                           !.gardenState = addObjectGardenState(w, stateVersion')]
           /\ UNCHANGED <<oscPortFails, relayVars>>

\* removeObject up to the end of "Remove from garden state".
BeginRemoveObject(objectId) ==
    /\ stateVersion < MaxVersion
    /\ LoopIdle
    /\ LET objectIndex == IndexOf(objects, objectId)
           location == locations[objectIndex]
           w == [Work(TheGarden) EXCEPT
                   !.objects = Splice(objects, objectIndex),
                   !.locations = Splice(locations, objectIndex),
                   !.removedObject = Removed(objectId, location, "")]
       IN  IF objectIndex = 0
           THEN /\ result' = [NoResult EXCEPT !.op = "removeObject",
                                              !.objectId = objectId]
                /\ oscSent' = <<>>
                /\ UNCHANGED <<objects, locations, addingOrder, objectTimestamps,
                               stateVersion, inactivityTimer, timerSetAt, pendingTimeouts,
                               oscPortFails, relayVars, inProgress>>
           ELSE /\ SetGardenTo(w)
                /\ inProgress' = Append(inProgress,
                                        Frame("removeObject", objectId, TheGarden, w))
                /\ oscSent' = <<>>
                /\ UNCHANGED <<stateVersion, inactivityTimer, timerSetAt, pendingTimeouts,
                               oscPortFails, relayVars, result>>

\* removeObject from "Remove from adding order" to its return.
EndRemoveObject ==
    \E i \in 1..Len(inProgress) :
       LET frame == inProgress[i]
           objId == frame.objectId
           location == frame.w.removedObject.location
           w == [OnGardenData(frame.w) EXCEPT
                   !.addingOrder = SpliceValue(addingOrder, objId),
                   !.objectTimestamps = objectTimestamps \ {objId}]
       IN  /\ frame.handler = "removeObject"
           /\ SetGardenTo(w)
           /\ updateStateMetadata(w, 1)
           /\ oscSent' = <<sendObjectEvent(OscEvent(objId, location, FALSE))>>
           /\ inProgress' = Splice(inProgress, i)
           /\ result' = [NoResult EXCEPT
                           !.op = "removeObject", !.objectId = objId,
                           !.success = TRUE,
                           !.removedObject = frame.w.removedObject,
                           !.gardenState = getGardenState(w, stateVersion')]
           /\ UNCHANGED <<oscPortFails, relayVars>>

\* The setTimeout callback of resetInactivityTimer: removeOldestHalf up to
\* the end of its loop over objectsToRemove.
BeginInactivityTimeout ==
    /\ stateVersion < MaxVersion
    /\ LoopIdle
    /\ inactivityTimer
    /\ inactivityTimer' = FALSE
    /\ pendingTimeouts' = pendingTimeouts - 1
    /\ LET countToRemove == Len(objects) \div 2
           objectsToRemove == SubSeq(addingOrder, 1, countToRemove)
           w == RemoveEach(Work(TheGarden), objectsToRemove)
       IN  IF Len(objects) = 0 \/ countToRemove = 0
           THEN /\ result' = [NoResult EXCEPT !.op = "removeOldestHalf"]
                /\ oscSent' = <<>>
                /\ UNCHANGED <<objects, locations, addingOrder, objectTimestamps,
                               stateVersion, timerSetAt, oscPortFails, relayVars, inProgress>>
           ELSE /\ SetGardenTo(w)
                /\ inProgress' = Append(inProgress,
                                        Frame("removeOldestHalf", "", TheGarden, w))
                /\ oscSent' = SendEach(w.events)
                /\ UNCHANGED <<stateVersion, timerSetAt, oscPortFails, relayVars, result>>

\* removeOldestHalf from "Remove from addingOrder" to its return.
EndInactivityTimeout ==
    \E i \in 1..Len(inProgress) :
       LET frame == inProgress[i]
           countToRemove == Len(frame.entry.objects) \div 2
           w == [OnGardenData(frame.w) EXCEPT
                   !.addingOrder = SliceFrom(addingOrder, countToRemove)]
       IN  /\ frame.handler = "removeOldestHalf"
           /\ SetGardenTo(w)
           /\ stateVersion' = stateVersion + 1
           /\ oscSent' = SendEach(w.events)
           /\ inProgress' = Splice(inProgress, i)
           /\ result' = [NoResult EXCEPT !.op = "removeOldestHalf",
                                         !.success = TRUE,
                                         !.removedObjects = w.removedObjects,
                                         !.gardenState =
                                             getGardenState(w, stateVersion')]
           /\ UNCHANGED <<inactivityTimer, timerSetAt, pendingTimeouts, oscPortFails, relayVars>>

\* POST /clear-garden, started by the event loop.
LoopClearGarden == LoopIdle /\ ClearGarden

\* POST /set-garden, started by the event loop.
LoopSetGarden(objectIds, clearFirst) == LoopIdle /\ SetGarden(objectIds, clearFirst)

\* The objectIds bodies POST /set-garden carries while the handlers run
\* statement by statement.
LoopLists == { <<"3", "21">>, <<>> }

NextLoop ==
    \/ \E objectId \in ObjectIds : BeginAddObject(objectId)
    \/ EndAddObject
    \/ \E objectId \in ObjectIds : BeginRemoveObject(objectId)
    \/ EndRemoveObject
    \/ BeginInactivityTimeout
    \/ EndInactivityTimeout
    \/ LoopClearGarden
    \/ \E objectIds \in LoopLists, clearFirst \in BOOLEAN :
          LoopSetGarden(objectIds, clearFirst)

SpecLoop == Init /\ [][NextLoop]_vars

---------------------------------------------------------------------------
(* Serialization of the handlers *)

GardenOf(w) == Garden(w.objects, w.locations, w.addingOrder, w.objectTimestamps)

\* The gardens the operation of a frame leaves when it runs alone on the
\* garden it found.
RunAlone(frame) ==
    LET g == frame.entry
        countToRemove == Len(g.objects) \div 2
        w0 == RemoveEach(Work(g), SubSeq(g.addingOrder, 1, countToRemove))
    IN  CASE frame.handler = "addObject" ->
                 {GardenOf(w) : w \in addObject(g, frame.objectId)}
          [] frame.handler = "removeObject" ->
                 {GardenOf(EvictAt(Work(g), IndexOf(g.objects, frame.objectId)))}
          [] frame.handler = "removeOldestHalf" ->
                 {GardenOf([w0 EXCEPT
                              !.addingOrder = SliceFrom(g.addingOrder, countToRemove)])}

---------------------------------------------------------------------------
(* The location type of an event *)

\* The events of the emitter calls of the last handler.
SentEvents ==
    UNION {Range(oscSent[i].events) : i \in 1..Len(oscSent)}

\* The LocationData keys whose list holds locationId.
CatalogTypes(locationId) ==
    {t \in DOMAIN LocationData : Includes(LocationData[t], locationId)}

HillLocations == Range(LocationData["H1"]) \cup Range(LocationData["H2"])

---------------------------------------------------------------------------
(* The batch against single adds *)

\* A garden and the events that led to it.
Outcome(g, events) == [garden |-> g, events |-> events]

\* Every way the calls addObject(ids[1]), addObject(ids[2]), ... can end
\* when they start from the outcomes of `outcomes`; a call for an id the
\* catalog lacks returns its failure and changes nothing.
RECURSIVE AddInSequence(_, _)
AddInSequence(outcomes, ids) ==
    IF ids = <<>> THEN outcomes
    ELSE AddInSequence(
             UNION {IF Head(ids) \notin DOMAIN ObjectLocationData
                    THEN {o}
                    ELSE {Outcome(GardenOf(w), o.events \o w.events) :
                             w \in addObject(o.garden, Head(ids))} :
                    o \in outcomes},
             Tail(ids))

\* The lists the batch and the single adds are compared on: an id most
\* gardens hold next to the one id of the hill slots, and a list with an
\* unknown id and a repeated id.
SequenceLists == { <<"3", "21">>, <<"13", "99", "13">> }

---------------------------------------------------------------------------
(* One firing per idle period *)

NextTimer ==
    \/ \E objectId \in ObjectIds : AddObject(objectId)
    \/ \E objectId \in ObjectIds : RemoveObject(objectId)
    \/ ClearGarden
    \/ \E clearFirst \in BOOLEAN : SetGarden(<<"3", "21">>, clearFirst)
    \/ RemoveOldestHalf
    \/ InactivityTimeout
    \/ InitializeGarden

\* The program under the requests that matter to the timer: the batch list
\* is one short list.
SpecTimer == Init /\ [][NextTimer]_vars

\* The operations whose updateStateMetadata sets a timer.
Rearming == {"addObject", "removeObject", "addObjectsBatch", "initializeGarden"}

\* C33: the idle action fires at most once per idle period.  At most one
\* countdown is pending at any time, and the one pending is the one the
\* inactivityTimer variable refers to; when the timer fires no countdown is
\* left pending, so it cannot fire again; and a countdown starts to be
\* pending only in a step of a mutation request that raises the version.
C33_OneFiringPerIdlePeriod ==
    /\ [](pendingTimeouts = (IF inactivityTimer THEN 1 ELSE 0))
    /\ [][TimerFires => pendingTimeouts' = 0]_vars
    /\ [][(pendingTimeouts = 0 /\ pendingTimeouts' > 0) =>
             /\ result'.op \in Rearming
             /\ result'.success
             /\ stateVersion' > stateVersion]_vars

\* The timer has fired on a garden of twenty occupants and removed ten; no
\* countdown is pending on the ten that are left.
C33_Witness ==
    /\ result.op = "removeOldestHalf"
    /\ result.success
    /\ Len(result.removedObjects) = 10
    /\ Len(objects) = 10
    /\ ~inactivityTimer
    /\ pendingTimeouts = 0

---------------------------------------------------------------------------
(* The evictions of one add *)

\* The ids of the model the catalog knows.
KnownIds == ObjectIds \cap DOMAIN ObjectLocationData

\* C34: a single successful add evicts at most one object.  On every garden
\* and for every known id, every way addObject can end leaves either as
\* many occupants as before, with exactly one eviction, the one returned
\* as removedObject, or one occupant more, with no eviction and
\* removedObject null; the count never decreases.
C34_AtMostOneEviction ==
    \A x \in KnownIds : \A w \in addObject(TheGarden, x) :
        \/ /\ Len(w.objects) = Len(objects)
           /\ w.removedObject # NoObject
           /\ w.removedObjects = <<w.removedObject>>
           /\ Includes(objects, w.removedObject.id)
           /\ Range(w.objects) = (Range(objects) \ {w.removedObject.id}) \cup {x}
        \/ /\ Len(w.objects) = Len(objects) + 1
           /\ w.removedObject = NoObject
           /\ w.removedObjects = <<>>
           /\ Range(w.objects) = Range(objects) \cup {x}

\* An add has displaced one occupant of a garden of twenty and returned it:
\* twenty occupants are left.
C34_Witness ==
    /\ result.op = "addObject"
    /\ result.success
    /\ result.removedObject.reason = "forced_displacement"
    /\ ~Includes(objects, result.removedObject.id)
    /\ Len(objects) = 20
    /\ stateVersion = 2

\* C35: within one add a duplicate removal and a forced displacement never
\* both occur.  On every garden and for every known id, no way addObject
\* can end has removals for both reasons; when the id is already placed,
\* the only removal is that of its old placement.
C35_DuplicateExcludesForced ==
    \A x \in KnownIds : \A w \in addObject(TheGarden, x) :
        LET reasons == {w.removedObjects[i].reason : i \in 1..Len(w.removedObjects)}
        IN  /\ ~({"duplicate", "forced_displacement"} \subseteq reasons)
            /\ Includes(objects, x) =>
                  /\ reasons = {"duplicate"}
                  /\ Len(w.removedObjects) = 1
                  /\ w.removedObject.id = x

\* Object 13 stands in a garden where every location it permits is
\* occupied: adding it again finds its own location the only free one.
C35_Witness ==
    /\ result.op = "addObject"
    /\ result.objectId = "13"
    /\ result.success
    /\ Includes(objects, "13")
    /\ PermittedLocations("13") \subseteq Range(locations)

---------------------------------------------------------------------------
(* objects and addingOrder *)

\* C36: in every reachable state objects and addingOrder are the same
\* sequence of ids, so the head of addingOrder is the occupant at index 0.
C36_OrderIsObjects ==
    /\ addingOrder = objects
    /\ objects # <<>> => Head(addingOrder) = objects[1]

\* An add has displaced an occupant from the middle of a garden of twenty
\* and pushed its id at the end of both sequences.
C36_Witness ==
    /\ result.op = "addObject"
    /\ result.success
    /\ result.removedObject.reason = "forced_displacement"
    /\ Len(addingOrder) = 20
    /\ addingOrder[20] = result.objectId
    /\ objects[20] = result.objectId
    /\ result.removedObject.id \notin {LoadedIds[1], LoadedIds[20]}

---------------------------------------------------------------------------
(* What an add and a remove leave alone *)

\* The placements of objs on locs of the ids outside xs.
PlacementsOutside(objs, locs, xs) ==
    {p \in Placements(objs, locs) : p[1] \notin xs}

\* C37: a successful add(x) leaves every occupant other than x and the one
\* evicted object, if any, on the slot it had before the call, and
\* preserves the relative order of those occupants in the addition order
\* (and in objects, and their timestamps); a successful remove(x) likewise
\* changes nothing about the other occupants.
C37_OthersUntouched ==
    [][\A x \in KnownIds :
         /\ AddedStep(x) =>
               LET gone == {x} \cup (IF result'.removedObject = NoObject THEN {}
                                     ELSE {result'.removedObject.id})
               IN  /\ PlacementsOutside(objects', locations', {x})
                        = PlacementsOutside(objects, locations, gone)
                   /\ Without(addingOrder', {x}) = Without(addingOrder, gone)
                   /\ Without(objects', {x}) = Without(objects, gone)
                   /\ objectTimestamps' \ {x} = objectTimestamps \ gone
         /\ (result'.op = "removeObject" /\ result'.objectId = x /\ result'.success) =>
               /\ PlacementsOutside(objects', locations', {x})
                    = PlacementsOutside(objects, locations, {x})
               /\ Without(addingOrder', {x}) = Without(addingOrder, {x})
               /\ Without(objects', {x}) = Without(objects, {x})
               /\ objectTimestamps' \ {x} = objectTimestamps \ {x}]_vars

\* Object 3, the oldest of a garden of twenty, has been added again: it is
\* now the newest and the nineteen others follow in their old order.
C37_Witness ==
    /\ result.op = "addObject"
    /\ result.objectId = "3"
    /\ result.removedObject.reason = "duplicate"
    /\ Len(objects) = 20
    /\ objects[20] = "3"
    /\ SubSeq(addingOrder, 1, 19) = SubSeq(LoadedIds, 2, 20)

---------------------------------------------------------------------------
(* The relay client: connect, disconnect and the "msg" broadcasts *)

\* The session ids of the relay's add commands.
SessionIds == {"s1"}

\* A broadcast as the "msg" handler reads its text: the pattern the text
\* matches ("none" when it matches neither) and the groups the match captured.
RelayMessages ==
    {[command |-> "add", objectId |-> x, sessionId |-> sid] :
        x \in ObjectIds, sid \in SessionIds}
    \cup {[command |-> "check-garden", objectId |-> x, sessionId |-> ""] :
             x \in ObjectIds}
    \cup {[command |-> "none", objectId |-> "", sessionId |-> ""]}

\* relaySocket.emit("hello", handshake)
Hello == [event |-> "hello", text |-> <<"webapp2-server">>, objectId |-> "",
          sessionId |-> ""]

\* relaySocket.emit("msg", response) of handleAddObject
Response(objectId, sessionId) ==
    [event |-> "msg", text |-> <<"Response: ", objectId>>,
     objectId |-> objectId, sessionId |-> sessionId]

\* relaySocket.emit("msg", response) of handleCheckGarden
Ack(objectId) ==
    [event |-> "msg", text |-> <<"ACK: check-garden/", objectId>>,
     objectId |-> objectId, sessionId |-> ""]

\* The 'connect' handler: the socket is connected and the handshake goes out.
RelayConnect ==
    /\ ~relayConnected
    /\ relayConnected' = TRUE
    /\ relaySent' = <<Hello>>
    /\ UNCHANGED <<objects, locations, addingOrder, objectTimestamps,
                   stateVersion, inactivityTimer, timerSetAt, pendingTimeouts,
                   oscPortFails, inProgress, lastObjectId, lastSessionId,
                   result, oscSent>>

\* The 'disconnect' handler: nothing is emitted; on 'io server disconnect' it
\* calls relaySocket.connect(), whose success is a later RelayConnect.
RelayDisconnect(reason) ==
    /\ relayConnected
    /\ relayConnected' = FALSE
    /\ relaySent' = <<>>
    /\ UNCHANGED <<objects, locations, addingOrder, objectTimestamps,
                   stateVersion, inactivityTimer, timerSetAt, pendingTimeouts,
                   oscPortFails, inProgress, lastObjectId, lastSessionId,
                   result, oscSent>>

\* handleAddObject(objectId, sessionId): the add, and a response to the relay
\* when it succeeded and the relay is connected.
handleAddObject(objectId, sessionId) ==
    /\ processAddObject(objectId)
    /\ relaySent' = (IF result'.success /\ relayConnected
                     THEN <<Response(objectId, sessionId)>> ELSE <<>>)
    /\ UNCHANGED <<oscPortFails, inProgress, relayConnected>>

\* Fault variant of handleCheckGarden: only a removal is acknowledged.
handleCheckGardenAcksRemovals(objectId) ==
    /\ removeObject(objectId)
    /\ relaySent' = (IF result'.success /\ relayConnected
                     THEN <<Ack(objectId)>> ELSE <<>>)
    /\ UNCHANGED <<oscPortFails, inProgress, relayConnected>>

\* handleCheckGarden(objectId): removeObject(objectId), then the
\* acknowledgement when the relay is connected.
handleCheckGarden(objectId) ==
    /\ removeObject(objectId)
    /\ relaySent' = (IF relayConnected THEN <<Ack(objectId)>> ELSE <<>>)
    /\ UNCHANGED <<oscPortFails, inProgress, relayConnected>>

\* The "msg" handler on a broadcast.
OnRelayMsg(message) ==
    IF message.command = "add"
    THEN /\ lastObjectId' = message.objectId
         /\ lastSessionId' = message.sessionId
         /\ handleAddObject(message.objectId, message.sessionId)
    ELSE IF message.command = "check-garden"
    THEN /\ handleCheckGarden(message.objectId)
         /\ UNCHANGED <<lastObjectId, lastSessionId>>
    ELSE /\ relaySent' = <<>>
         /\ UNCHANGED <<objects, locations, addingOrder, objectTimestamps,
                        stateVersion, inactivityTimer, timerSetAt,
                        pendingTimeouts, oscPortFails, inProgress,
                        relayConnected, lastObjectId, lastSessionId,
                        result, oscSent>>

\* The garden under the relay alone.
NextRelay ==
    \/ RelayConnect
    \/ \E reason \in {"io server disconnect", "transport close"} :
           RelayDisconnect(reason)
    \/ \E message \in RelayMessages : OnRelayMsg(message)

SpecRelay == Init /\ [][NextRelay]_vars

---------------------------------------------------------------------------
(* check-garden is a removal *)

\* The broadcast 'check-garden/<x>'.
CheckGarden(x) == [command |-> "check-garden", objectId |-> x, sessionId |-> ""]

\* C38: a relayed 'check-garden/<id>' message is a mutation: when object <id>
\* is placed it leaves the garden, the others keep their places, one removal
\* event for it goes out and the version grows by one; when it is not placed
\* the garden, the version and the timer stay as they were and nothing goes
\* out; either way the acknowledgement goes to the relay when it is connected.
C38_CheckGardenRemoves ==
    [][\A x \in ObjectIds :
         OnRelayMsg(CheckGarden(x)) =>
            /\ IF Includes(objects, x)
               THEN /\ ~Includes(objects', x)
                    /\ Len(objects') = Len(objects) - 1
                    /\ \A i \in 1..Len(objects) :
                          objects[i] # x =>
                              \E j \in 1..Len(objects') :
                                  /\ objects'[j] = objects[i]
                                  /\ locations'[j] = locations[i]
                    /\ Len(oscSent') = 1
                    /\ oscSent'[1].events[1].objectId = x
                    /\ ~oscSent'[1].events[1].isAdd
                    /\ stateVersion' = stateVersion + 1
               ELSE /\ TheGarden' = TheGarden
                    /\ stateVersion' = stateVersion
                    /\ UNCHANGED <<inactivityTimer, timerSetAt, pendingTimeouts>>
                    /\ oscSent' = <<>>
            /\ relayConnected => relaySent' = <<Ack(x)>>]_vars

\* Object 3 has just left a garden of several objects on a check-garden
\* message, and the acknowledgement has gone to the connected relay.
C38_Witness ==
    /\ relayConnected
    /\ relaySent = <<Ack("3")>>
    /\ result.op = "removeObject"
    /\ result.success
    /\ ~Includes(objects, "3")
    /\ Len(objects) > 1
    /\ Len(oscSent) = 1

====
